---- MODULE Spec2Model ----
(***************************************************************************)
(* UnifiedStay calendar core: SyncScheduler (services/sync-scheduler.ts),  *)
(* ICalAdapter (adapters/ical.adapter.ts) and CalendarService.syncChannel  *)
(* (modules/calendar/calendar.service.ts) over the shared Prisma store.    *)
(*                                                                         *)
(* Every async function is cut at its awaits: one action is one awaited    *)
(* fetch / store call together with the synchronous code that follows it   *)
(* up to the next await.  Invocations run in slots, so that several calls  *)
(* can be in flight on the single-threaded event loop.                     *)
(***************************************************************************)
EXTENDS Integers, Sequences, FiniteSets, TLC

\* ------------------------------------------------------------------ bounds
MaxRuns == 2        \* batches and manual syncs started in one behaviour
MaxFaults == 2      \* fetch / store calls that fail in one behaviour
MaxTime == 2        \* readings of the wall clock: 0..MaxTime
MaxEvents == 2      \* VEVENTs in one published feed document
MaxFeedChanges == 1 \* times a channel republishes a different document
MaxPending == 1     \* start-up timeouts armed and not yet fired
MaxStored == 3      \* reservations a seeded calendar holds at start-up

\* ------------------------------------------------------------- constants
Null == "null"          \* null / undefined of a string or object field
NoDate == 0 - 1         \* null of a Date field (lastRunAt, lastSyncAt)
IntervalMs == 30        \* getNextRunTime: 30 * 60 * 1000, in model minutes
NoUid == 0              \* a VEVENT without UID property
UuidBase == 100         \* crypto.randomUUID() values are UuidBase + n

Slots == {1, 2}
Mappings == {1, 2, 3}

\* channelMapping.channel of the seeded connections (one per property)
MappingChannel(m) == IF m = 3 THEN "vrbo" ELSE "airbnb"

\* Error texts
ErrNoUrl == "No iCal URL configured"
ErrHttp == "Failed to fetch iCal: 500"
ErrTransport == "fetch failed"
ErrStore == "store error"
ErrNoUnit == "No unit found for property"

\* --------------------------------------------------------------- the feed
\* VEVENTs a channel may publish: uid 0 is a missing UID, summary "" a
\* missing SUMMARY, NoDate a missing DTSTART / DTEND.
RawEvent(u, s, ds, de) == [uid |-> u, summary |-> s, dtstart |-> ds, dtend |-> de]

RawEvents ==
    { RawEvent(1, "Ann", 1, 2), RawEvent(1, "Ann", 1, 3), RawEvent(1, "", 1, 2),
      RawEvent(NoUid, "Ann", 2, 3), RawEvent(2, "Bob", 3, 2),
      RawEvent(2, "Bob", NoDate, 3) }

\* A document is parsable iCalendar text with VEVENTs, or unparsable text.
Doc(v) == [ok |-> TRUE, vevents |-> v]

Garbage == [ok |-> FALSE, vevents |-> <<>>]

EmptyDoc == Doc(<<>>)

\* what a channel may serve next in place of document d: one more VEVENT,
\* the last VEVENT withdrawn or replaced, or text that does not parse
Republished(d) ==
    ({ Doc(Append(d.vevents, e)) : e \in RawEvents }
     \cup { Doc(SubSeq(d.vevents, 1, Len(d.vevents) - 1)) }
     \cup { Doc([d.vevents EXCEPT ![Len(d.vevents)] = e]) : e \in RawEvents }
     \cup { Garbage })
    \cap { x \in [ok : BOOLEAN, vevents : UNION { [1..k -> RawEvents] : k \in 0..MaxEvents }] :
             x # d /\ (x.ok \/ x.vevents = <<>>) }

VARIABLES
    task,            \* SyncScheduler.task # null
    startupPending,  \* the setTimeout of start() has not fired yet
    isRunning,       \* SyncScheduler.isRunning
    lastRunAt,       \* SyncScheduler.lastRunAt
    lastResults,     \* SyncScheduler.lastResults
    conns,           \* db.channelMapping rows (with property.units)
    reservations,    \* db.reservation rows, id = index
    blocks,          \* db.availabilityBlock rows
    syncLogs,        \* db.syncLog rows
    feed,            \* document each connection's iCalUrl serves
    uuidCtr,         \* crypto.randomUUID() values handed out
    now,             \* wall clock
    faults,          \* failed fetch / store calls so far
    runs,            \* batches and manual syncs started so far
    feedChanges,     \* documents republished so far
    inv,             \* call frames of the invocations in flight
    stable           \* history: connection -> its last run succeeded and
                     \* neither its feed nor the store changed since

vars == <<task, startupPending, isRunning, lastRunAt, lastResults, conns,
          reservations, blocks, syncLogs, feed, uuidCtr, now, faults, runs,
          feedChanges, inv, stable>>

schedVars == <<task, startupPending>>
guardVars == <<isRunning, lastRunAt, lastResults>>
storeVars == <<conns, reservations, blocks, syncLogs>>
envVars == <<feed, now, feedChanges>>


\* ------------------------------------------------------- pure functions
\* ICAL.Event.endDate: DTEND, or a clone of the start when DTEND is absent
EndDate(e) == IF e.dtend # NoDate THEN e.dtend ELSE e.dtstart

\* One parsed ICalEvent (the objects pushed in parseICalData)
ICalEvent(e, ctr) ==
    [uid |-> IF e.uid # NoUid THEN e.uid ELSE UuidBase + ctr + 1,
     summary |-> IF e.summary # "" THEN e.summary ELSE "Blocked",
     dtstart |-> e.dtstart,
     dtend |-> EndDate(e)]

RECURSIVE ParseVevents(_, _, _, _)
ParseVevents(v, j, ctr, acc) ==
    IF j > Len(v) THEN [events |-> acc, ctr |-> ctr]
    ELSE IF v[j].dtstart = NoDate \/ EndDate(v[j]) = NoDate
         THEN ParseVevents(v, j + 1, ctr, acc)
         ELSE ParseVevents(v, j + 1,
                           IF v[j].uid = NoUid THEN ctr + 1 ELSE ctr,
                           Append(acc, ICalEvent(v[j], ctr)))

\* parseICalData: the events of a document; an unparsable one gives [].
ParseICalData(doc, ctr) ==
    IF ~doc.ok THEN [events |-> <<>>, ctr |-> ctr]
    ELSE ParseVevents(doc.vevents, 1, ctr, <<>>)

\* externalId of a reservation that has none
NoExternalId == <<>>

\* `${mapping.channel}-${event.uid}`
ExternalId(channel, uid) == <<channel, uid>>

\* event.summary || 'Guest'
GuestName(ev) == IF ev.summary # "" THEN ev.summary ELSE "Guest"

\* ids of db.reservation.findFirst({ where: { channel, externalId } })
FindMatchesNever(rs, channel, externalId) == {}

FindMatches(rs, channel, externalId) ==
    { id \in 1..Len(rs) : rs[id].channel = channel /\ rs[id].externalId = externalId }

\* the "dates changed" test of syncCalendar
DatesDifferCrossed(r, ev) == r.checkIn # ev.dtend \/ r.checkOut # ev.dtstart

DatesDiffer(r, ev) == r.checkIn # ev.dtstart \/ r.checkOut # ev.dtend

NewReservation(unitId, channel, ev) ==
    [unitId |-> unitId, channel |-> channel,
     externalId |-> ExternalId(channel, ev.uid),
     guestName |-> GuestName(ev),
     checkIn |-> ev.dtstart, checkOut |-> ev.dtend,
     status |-> "confirmed", totalAmount |-> Null]

UpdatedReservationConfirm(r, ev) ==
    [r EXCEPT !.checkIn = ev.dtstart, !.checkOut = ev.dtend,
              !.guestName = GuestName(ev), !.status = "confirmed"]

UpdatedReservation(r, ev) ==
    [r EXCEPT !.checkIn = ev.dtstart, !.checkOut = ev.dtend,
              !.guestName = GuestName(ev)]

\* CalendarSyncResult (added / updated are aliases of the two counts)
SyncResult(ok, found, created, updated, error) ==
    [success |-> ok, eventsFound |-> found, eventsCreated |-> created,
     eventsUpdated |-> updated, error |-> error]

FailureResult(error) == SyncResult(FALSE, 0, 0, 0, error)

\* db.syncLog.create rows
SuccessLog(m, found, created, updated) ==
    [channelMappingId |-> m, status |-> "success", eventsFound |-> found,
     eventsCreated |-> created, eventsUpdated |-> updated, error |-> Null]

FailedLogNoText(m, error) ==
    [channelMappingId |-> m, status |-> "failed", eventsFound |-> 0,
     eventsCreated |-> 0, eventsUpdated |-> 0, error |-> Null]

FailedLog(m, error) ==
    [channelMappingId |-> m, status |-> "failed", eventsFound |-> 0,
     eventsCreated |-> 0, eventsUpdated |-> 0, error |-> error]

\* the entries of SyncScheduler's result list
BatchEntry(m, r) ==
    [channelId |-> m, success |-> (r.error = Null),
     eventsAdded |-> r.eventsCreated, eventsUpdated |-> r.eventsUpdated,
     error |-> r.error]

BatchFailure(m, error) ==
    [channelId |-> m, success |-> FALSE, eventsAdded |-> 0,
     eventsUpdated |-> 0, error |-> error]

\* findMany({ where: { iCalUrl: { not: null } } }), in id order
RECURSIVE WithUrl(_, _)
WithUrl(c, m) ==
    IF m \notin Mappings THEN <<>>
    ELSE (IF c[m].iCalUrl THEN <<m>> ELSE <<>>) \o WithUrl(c, m + 1)


\* ------------------------------------------------- calendar and conflicts
\* the date window of getConflicts: from now to 365 days later
WindowDays == 365

Max2(a, b) == IF a >= b THEN a ELSE b

Min2(a, b) == IF a <= b THEN a ELSE b

\* the OR of the findMany filters of getEvents on the two dates of a row
InWindow(from, to, start, end) ==
    \/ from >= start /\ from <= end
    \/ to >= start /\ to <= end
    \/ from <= start /\ to >= end

\* the CalendarEvent getEvents makes of reservation row id
ReservationEvent(id, r) ==
    [id |-> <<"reservation", id>>, unitId |-> r.unitId, type |-> "booked",
     checkIn |-> r.checkIn, checkOut |-> r.checkOut, hasConflict |-> FALSE]

\* the CalendarEvent getEvents makes of availability block row id
BlockEvent(id, b) ==
    [id |-> <<"block", id>>, unitId |-> b.unitId, type |-> b.type,
     checkIn |-> b.startDate, checkOut |-> b.endDate, hasConflict |-> FALSE]

\* status: { in: ['confirmed', 'pending'] } of that findMany
ShownStatusAny(st) == TRUE

ShownStatus(st) == st \in {"confirmed", "pending"}

\* db.reservation.findMany of getEvents, mapped to events: live
\* reservations of the user's units that touch the window
RECURSIVE ReservationEvents(_, _, _, _, _)
ReservationEvents(rs, j, unitIds, start, end) ==
    IF j > Len(rs) THEN <<>>
    ELSE (IF /\ rs[j].unitId \in unitIds
             /\ ShownStatus(rs[j].status)
             /\ InWindow(rs[j].checkIn, rs[j].checkOut, start, end)
          THEN <<ReservationEvent(j, rs[j])>> ELSE <<>>)
         \o ReservationEvents(rs, j + 1, unitIds, start, end)

\* db.availabilityBlock.findMany of getEvents, mapped to events
RECURSIVE BlockEvents(_, _, _, _, _)
BlockEvents(bs, j, unitIds, start, end) ==
    IF j > Len(bs) THEN <<>>
    ELSE (IF /\ bs[j].unitId \in unitIds
             /\ InWindow(bs[j].startDate, bs[j].endDate, start, end)
          THEN <<BlockEvent(j, bs[j])>> ELSE <<>>)
         \o BlockEvents(bs, j + 1, unitIds, start, end)

\* the keys of eventsByUnit in insertion order: unit ids by first event
RECURSIVE UnitOrder(_, _, _)
UnitOrder(events, j, seen) ==
    IF j > Len(events) THEN <<>>
    ELSE IF events[j].unitId \in seen THEN UnitOrder(events, j + 1, seen)
    ELSE <<events[j].unitId>> \o UnitOrder(events, j + 1, seen \cup {events[j].unitId})

\* eventsByUnit.get(unitId): the events of the unit in input order
RECURSIVE UnitEvents(_, _, _)
UnitEvents(events, j, unitId) ==
    IF j > Len(events) THEN <<>>
    ELSE (IF events[j].unitId = unitId THEN <<events[j]>> ELSE <<>>)
         \o UnitEvents(events, j + 1, unitId)

\* e put into the sorted list after every event that does not start later
RECURSIVE InsertByCheckIn(_, _)
InsertByCheckIn(sorted, e) ==
    IF sorted = <<>> THEN <<e>>
    ELSE IF sorted[Len(sorted)].checkIn <= e.checkIn THEN Append(sorted, e)
    ELSE Append(InsertByCheckIn(SubSeq(sorted, 1, Len(sorted) - 1), e),
                sorted[Len(sorted)])

\* unitEvents.sort((a, b) => a.checkIn - b.checkIn), a stable sort
RECURSIVE SortByCheckIn(_, _, _)
SortByCheckIn(list, j, sorted) ==
    IF j > Len(list) THEN sorted
    ELSE SortByCheckIn(list, j + 1, InsertByCheckIn(sorted, list[j]))

\* the overlap test `aStart < bEnd && bStart < aEnd`
OverlapTestClosed(a, b) == a.checkIn <= b.checkOut /\ b.checkIn <= a.checkOut

OverlapTest(a, b) == a.checkIn < b.checkOut /\ b.checkIn < a.checkOut

\* the ConflictInfo pushed for an overlapping pair
ConflictInfo(a, b) ==
    [eventA |-> a, eventB |-> b,
     overlapStart |-> Max2(a.checkIn, b.checkIn),
     overlapEnd |-> Min2(a.checkOut, b.checkOut)]

\* the two loops over one unit's sorted events, from the pair (i, j) on
RECURSIVE UnitConflicts(_, _, _)
UnitConflicts(ue, i, j) ==
    IF i > Len(ue) THEN <<>>
    ELSE IF j > Len(ue) THEN UnitConflicts(ue, i + 1, i + 2)
    ELSE (IF OverlapTest(ue[i], ue[j]) THEN <<ConflictInfo(ue[i], ue[j])>> ELSE <<>>)
         \o UnitConflicts(ue, i, j + 1)

\* the loop over the units of eventsByUnit
RECURSIVE ConflictsOfUnits(_, _, _)
ConflictsOfUnits(events, order, n) ==
    IF n > Len(order) THEN <<>>
    ELSE UnitConflicts(SortByCheckIn(UnitEvents(events, 1, order[n]), 1, <<>>), 1, 2)
         \o ConflictsOfUnits(events, order, n + 1)

\* detectConflicts(events)
DetectConflicts(events) == ConflictsOfUnits(events, UnitOrder(events, 1, {}), 1)

\* the ids of conflicts.flatMap((c) => [c.eventA.id, c.eventB.id])
ConflictEventIds(conflicts) ==
    { conflicts[n].eventA.id : n \in 1..Len(conflicts) }
        \cup { conflicts[n].eventB.id : n \in 1..Len(conflicts) }

\* the events of getEvents after the marking loop
MarkConflictsFirstOnly(events) ==
    LET cs == DetectConflicts(events)
        ids == { cs[n].eventA.id : n \in 1..Len(cs) }
    IN  [j \in 1..Len(events) |->
            [events[j] EXCEPT !.hasConflict = (events[j].id \in ids)]]

MarkConflicts(events) ==
    LET ids == ConflictEventIds(DetectConflicts(events))
    IN  [j \in 1..Len(events) |->
            [events[j] EXCEPT !.hasConflict = (events[j].id \in ids)]]

\* ---------------------------------------------------------- call frames
\* Locals of one invocation.  kind: "batch" (runSync), "skipped" (runSync
\* that met isRunning), "manual" (syncChannel).  pc names the await the
\* invocation is suspended at; kinds "reserve" (createReservation) and
\* "block" (createBlock) carry the request body in input; "direct" is a
\* call of iCalAdapter.syncCalendar by itself; "conflicts" (getConflicts)
\* keeps the window start, the unit ids and the events read so far and
\* returns conflicts.  History of the current syncCalendar call:
\* fetchFailed, writes (reservation writes committed), logs (sync logs
\* appended), doc (the document fetched), writeFailed (the connections
\* for which a reservation create or update was rejected), startedStable (the connection's
\* last run succeeded and feed and store are as it left them).
IdleFrame ==
    [kind |-> "none", pc |-> "idle", maps |-> <<>>, i |-> 0, results |-> <<>>,
     m |-> 0, unitId |-> 0, events |-> <<>>, k |-> 0, created |-> 0,
     updated |-> 0, existing |-> 0, err |-> Null, res |-> FailureResult(Null),
     retList |-> <<>>, threw |-> FALSE,
     fetchFailed |-> FALSE, writes |-> 0, logs |-> 0, doc |-> EmptyDoc,
     startedStable |-> FALSE, attempted |-> {}, input |-> Null,
     writeFailed |-> {}, start |-> 0, unitIds |-> {}, calEvents |-> <<>>,
     conflicts |-> <<>>]

\* runSync's finally block and return: the frame is left with its result
\* list (and, as history, the enumeration and the connections attempted).
Finish(f) ==
    [IdleFrame EXCEPT !.kind = f.kind, !.retList = f.results,
                      !.maps = f.maps, !.attempted = f.attempted,
                      !.writeFailed = f.writeFailed]

\* an invocation that rejects (syncChannel's throw reaches the route)
Thrown(f, msg) ==
    [IdleFrame EXCEPT !.kind = f.kind, !.threw = TRUE, !.err = msg, !.m = f.m]

\* syncChannel returns the CalendarSyncResult
ReturnResult(f) ==
    [IdleFrame EXCEPT !.kind = f.kind, !.res = f.res, !.m = f.m]

\* syncCalendar resolved with r: both callers next await
\* db.channelMapping.update({ lastSyncAt, lastSyncError })
\* (a direct caller of the adapter just receives r)
Returned(f, r) ==
    IF f.kind = "direct" THEN ReturnResult([f EXCEPT !.res = r])
    ELSE [f EXCEPT !.pc = "markSync", !.res = r]

\* syncCalendar rejected (the syncLog.create of its catch block threw):
\* runSync's inner catch awaits the lastSyncError update, syncChannel throws
RejectedUncaught(f, msg) == Thrown(f, msg)

Rejected(f, msg) ==
    IF f.kind = "batch" THEN [f EXCEPT !.pc = "errUpdate", !.err = msg]
    ELSE Thrown(f, msg)

\* the loop head `for (const event of events)`: next findFirst or the log
NextEvent(f) ==
    IF f.k > Len(f.events) THEN [f EXCEPT !.pc = "logOk"]
    ELSE [f EXCEPT !.pc = "find"]

\* the catch block of syncCalendar is entered with msg
Caught(f, msg) == [f EXCEPT !.pc = "logFail", !.err = msg]

\* syncCalendar(mapping, unitId) up to its first await
StartSyncNoGuard(f, c, m, unitId) ==
    [f EXCEPT !.m = m, !.unitId = unitId, !.events = <<>>, !.k = 0,
              !.created = 0, !.updated = 0, !.existing = 0,
              !.err = Null, !.fetchFailed = FALSE, !.writes = 0,
              !.logs = 0, !.doc = EmptyDoc, !.startedStable = FALSE,
              !.attempted = f.attempted \cup {m}, !.pc = "fetch"]

StartSync(f, c, m, unitId) ==
    LET g == [f EXCEPT !.m = m, !.unitId = unitId, !.events = <<>>, !.k = 0,
                       !.created = 0, !.updated = 0, !.existing = 0,
                       !.err = Null, !.fetchFailed = FALSE, !.writes = 0,
                       !.logs = 0, !.doc = EmptyDoc,
                       !.startedStable = FALSE,
                       !.attempted = f.attempted \cup {m}]
    IN  IF ~c[m].iCalUrl THEN Returned(g, FailureResult(ErrNoUrl))
        ELSE [g EXCEPT !.pc = "fetch"]

\* the part of runSync's loop that needs no await: connections whose
\* property has no unit get a failure entry at once
RECURSIVE SkipUnitless(_, _, _, _)
SkipUnitless(c, maps, i, results) ==
    IF i > Len(maps) \/ c[maps[i]].units # <<>>
    THEN [i |-> i, results |-> results]
    ELSE SkipUnitless(c, maps, i + 1,
                      Append(results, BatchFailure(maps[i], ErrNoUnit)))

\* runSync's loop from index f.i: skip unit-less connections, then either
\* call syncCalendar for the next connection or leave the loop
NextMapping(f, c) ==
    LET r == SkipUnitless(c, f.maps, f.i, f.results)
        g == [f EXCEPT !.i = r.i, !.results = r.results,
                       !.attempted = f.attempted
                           \cup { f.maps[j] : j \in f.i..(r.i - 1) }]
    IN  IF r.i > Len(f.maps) THEN Finish(g)
        ELSE StartSync(g, c, f.maps[r.i], c[f.maps[r.i]].units[1])

\* the single-flight test `if (this.isRunning)`
BusyNever(running) == FALSE

Busy(running) == running

\* `return this.lastResults` of a skipped trigger
SkippedFresh(cached) == [IdleFrame EXCEPT !.kind = "skipped", !.retList = <<>>]

Skipped(cached) == [IdleFrame EXCEPT !.kind = "skipped", !.retList = cached]

\* whether a fetch / store call may fail now
Outcomes == IF faults < MaxFaults THEN {TRUE, FALSE} ELSE {TRUE}

Charge(ok) == faults' = IF ok THEN faults ELSE faults + 1

\* writes the frame back; a batch frame that became idle ran `finally`
CommitNoFinally(s, f) ==
    /\ inv' = [inv EXCEPT ![s] = f]
    /\ IF f.kind = "batch" /\ f.pc = "idle" /\ Len(f.retList) = Len(f.maps)
       THEN /\ isRunning' = FALSE
            /\ lastResults' = f.retList
            /\ UNCHANGED lastRunAt
       ELSE UNCHANGED guardVars

Commit(s, f) ==
    /\ inv' = [inv EXCEPT ![s] = f]
    /\ IF f.kind = "batch" /\ f.pc = "idle"
       THEN /\ isRunning' = FALSE
            /\ lastResults' = f.retList
            /\ UNCHANGED lastRunAt
       ELSE UNCHANGED guardVars


\* ------------------------------------------------------------------ Init
Conn(url, units) ==
    [iCalUrl |-> url, units |-> units, lastSyncAt |-> NoDate, lastSyncError |-> Null]

\* seeded connections: every property has its unit and every connection
\* its feed URL; or the property of connection 3 has no unit; or, besides,
\* connection 2 has no URL; or only connection 3 has no URL
FullConns == [m \in Mappings |-> Conn(TRUE, <<m>>)]

SmallConns == [m \in Mappings |-> Conn(TRUE, IF m = 3 THEN <<>> ELSE <<m>>)]

OneConn == [m \in Mappings |-> Conn(m # 2, IF m = 3 THEN <<>> ELSE <<m>>)]

PairConns == [m \in Mappings |-> Conn(m # 3, <<m>>)]

InitConns == {FullConns, SmallConns}

\* what the feeds serve at start-up: one booking each, the same UID; the
\* feed of connection 2 gives it other dates
InitFeed ==
    [m \in Mappings |->
        [ok |-> TRUE,
         vevents |-> <<RawEvent(1, "Ann", 1, IF m = 2 THEN 3 ELSE 2)>>]]

\* a feed that carries one booking twice (a recurrence override keeps the
\* UID), with different dates
TwiceFeed ==
    [m \in Mappings |->
        [ok |-> TRUE,
         vevents |-> <<RawEvent(1, "Ann", 1, 2), RawEvent(1, "Ann", 1, 3)>>]]

\* a feed whose second entry ends before it starts
InvertedFeed ==
    [m \in Mappings |->
        [ok |-> TRUE,
         vevents |-> <<RawEvent(1, "Ann", 1, 3), RawEvent(2, "Bob", 3, 2)>>]]

\* the state after construction, over seeded connections of cs serving
\* fd and a store that holds one of the reservation tables of rs and one
\* of the block tables of bs
InitStored(cs, fd, rs, bs) ==
    /\ task = FALSE
    /\ startupPending = 0
    /\ isRunning = FALSE
    /\ lastRunAt = NoDate
    /\ lastResults = <<>>
    /\ conns \in cs
    /\ reservations \in rs
    /\ blocks \in bs
    /\ syncLogs = <<>>
    /\ feed = fd
    /\ uuidCtr = 0
    /\ now = 0
    /\ faults = 0
    /\ runs = 0
    /\ feedChanges = 0
    /\ inv = [s \in Slots |-> IdleFrame]
    /\ stable = [m \in Mappings |-> FALSE]

\* a channel-sourced reservation of connection 1 (UID 1, days 1 to 2)
\* whose status was advanced to st after reconciliation created it
Advanced(st) ==
    [NewReservation(1, MappingChannel(1), ICalEvent(RawEvent(1, "Ann", 1, 2), 0))
        EXCEPT !.status = st]

\* reservation tables the store may hold at start-up
SeededStores == {<<>>} \cup { <<Advanced(st)>> : st \in {"completed", "cancelled"} }

\* a stored reservation of unit u over days ci to co with status st
StoredReservation(u, ci, co, st) ==
    [unitId |-> u, channel |-> "direct", externalId |-> NoExternalId,
     guestName |-> "Cy", checkIn |-> ci, checkOut |-> co, status |-> st,
     totalAmount |-> Null]

\* rows a calendar may hold: overlapping, adjacent and empty intervals on
\* unit 1, the same days on unit 2, a cancelled one, one of a foreign unit
ConflictRows ==
    { StoredReservation(1, 1, 3, "confirmed"), StoredReservation(1, 2, 4, "pending"),
      StoredReservation(1, 3, 4, "confirmed"), StoredReservation(1, 2, 2, "confirmed"),
      StoredReservation(2, 1, 3, "confirmed"), StoredReservation(2, 2, 4, "confirmed"),
      StoredReservation(1, 1, 3, "cancelled"), StoredReservation(9, 1, 3, "confirmed") }

\* the reservation tables of up to MaxStored such rows
ConflictStores == UNION { [1..n -> ConflictRows] : n \in 0..MaxStored }

\* the block tables: none, a block on unit 1, a hold on unit 2
ConflictBlocks ==
    { <<>>,
      <<[unitId |-> 1, type |-> "blocked", startDate |-> 1, endDate |-> 2]>>,
      <<[unitId |-> 2, type |-> "hold", startDate |-> 3, endDate |-> 4]>> }

\* the same without availability blocks
InitSeeded(cs, fd, rs) == InitStored(cs, fd, rs, {<<>>})

\* the same over an empty store
InitWith(cs, fd) == InitSeeded(cs, fd, {<<>>})

Init == InitWith(InitConns, InitFeed)

\* ------------------------------------------------------- SyncScheduler
\* start(): creates the cron task and arms the 10 s start-up timeout
Start ==
    /\ startupPending < MaxPending
    /\ IF task THEN UNCHANGED schedVars
       ELSE /\ task' = TRUE
            /\ startupPending' = startupPending + 1
    /\ UNCHANGED <<guardVars, storeVars, envVars, uuidCtr, faults, runs, inv, stable>>

\* stop(): stops and forgets the cron task
Stop ==
    /\ task
    /\ task' = FALSE
    /\ UNCHANGED <<startupPending, guardVars, storeVars, envVars, uuidCtr,
                   faults, runs, inv, stable>>

\* runSync() up to its first await, called in slot s
RunSync(s) ==
    /\ inv[s].pc = "idle"
    /\ IF Busy(isRunning)
       THEN /\ inv' = [inv EXCEPT ![s] = Skipped(lastResults)]
            /\ UNCHANGED <<guardVars, runs>>
       ELSE /\ runs < MaxRuns
            /\ runs' = runs + 1
            /\ isRunning' = TRUE
            /\ lastRunAt' = now
            /\ inv' = [inv EXCEPT ![s] =
                          [IdleFrame EXCEPT !.kind = "batch",
                                            !.pc = "enumerate"]]
            /\ UNCHANGED lastResults
    /\ UNCHANGED <<storeVars, envVars, uuidCtr, faults, stable>>

\* the cron callback `async () => { await this.runSync() }`
TimerTick(s) ==
    /\ task
    /\ RunSync(s)
    /\ UNCHANGED schedVars

\* the setTimeout callback of start()
StartupTimeout(s) ==
    /\ startupPending > 0
    /\ RunSync(s)
    /\ startupPending' = startupPending - 1
    /\ UNCHANGED task

\* POST /sync/all
ManualSyncAll(s) ==
    /\ RunSync(s)
    /\ UNCHANGED schedVars

\* getNextRunTime(): lastRunAt plus 30 minutes, null before the first run
GetNextRunTime == IF lastRunAt = NoDate THEN NoDate ELSE lastRunAt + IntervalMs

\* getStatus(): what GET /sync/status answers
GetStatus ==
    [isRunning |-> isRunning, lastRunAt |-> lastRunAt, lastResults |-> lastResults,
     nextRunAt |-> IF task THEN GetNextRunTime ELSE NoDate]

\* await db.channelMapping.findMany(...) of runSync
Enumerate(s) ==
    /\ inv[s].pc = "enumerate"
    /\ \E ok \in Outcomes :
          /\ Charge(ok)
          /\ IF ok
             THEN Commit(s, NextMapping([inv[s] EXCEPT !.maps = WithUrl(conns, 1),
                                                       !.i = 1],
                                        conns))
             ELSE Commit(s, Finish(inv[s]))
    /\ UNCHANGED <<schedVars, storeVars, envVars, uuidCtr, runs, stable>>


\* --------------------------------------------------------- ICalAdapter
NoneStable == [m \in Mappings |-> FALSE]

\* await fetch(mapping.iCalUrl) and response.text(), then parseICalData
\* and the head of the event loop
Fetch(s) ==
    /\ inv[s].pc = "fetch"
    /\ \E ok \in Outcomes :
          /\ Charge(ok)
          /\ IF ok
             THEN LET p == ParseICalData(feed[inv[s].m], uuidCtr)
                  IN  /\ uuidCtr' = p.ctr
                      /\ Commit(s, NextEvent([inv[s] EXCEPT !.events = p.events,
                                                            !.k = 1,
                                                            !.doc = feed[inv[s].m],
                                                            !.startedStable = stable[inv[s].m]]))
             ELSE /\ \E msg \in {ErrHttp, ErrTransport} :
                        Commit(s, Caught([inv[s] EXCEPT !.fetchFailed = TRUE], msg))
                  /\ UNCHANGED uuidCtr
    /\ UNCHANGED <<schedVars, storeVars, envVars, runs, stable>>

\* await db.reservation.findFirst(...) and the branch on its result
FindExisting(s) ==
    LET f == inv[s]
        ev == f.events[f.k]
        ch == MappingChannel(f.m)
        found == FindMatches(reservations, ch, ExternalId(ch, ev.uid))
    IN  /\ f.pc = "find"
        /\ \E ok \in Outcomes :
              /\ Charge(ok)
              /\ IF ~ok THEN Commit(s, Caught(f, ErrStore))
                 ELSE IF found = {} THEN Commit(s, [f EXCEPT !.pc = "create", !.existing = 0])
                 ELSE \E id \in found :
                         IF DatesDiffer(reservations[id], ev)
                         THEN Commit(s, [f EXCEPT !.pc = "update", !.existing = id])
                         ELSE Commit(s, NextEvent([f EXCEPT !.k = f.k + 1, !.existing = id]))
        /\ UNCHANGED <<schedVars, storeVars, envVars, uuidCtr, runs, stable>>

\* await db.reservation.update(...); eventsUpdated++
UpdateReservation(s) ==
    LET f == inv[s]
        ev == f.events[f.k]
    IN  /\ f.pc = "update"
        /\ \E ok \in Outcomes :
              /\ Charge(ok)
              /\ IF ok
                 THEN /\ reservations' = [reservations EXCEPT ![f.existing] =
                                             UpdatedReservation(reservations[f.existing], ev)]
                      /\ stable' = NoneStable
                      /\ Commit(s, NextEvent([f EXCEPT !.k = f.k + 1,
                                                       !.updated = f.updated + 1,
                                                       !.writes = f.writes + 1]))
                 ELSE /\ Commit(s, Caught([f EXCEPT !.writeFailed = f.writeFailed \cup {f.m}], ErrStore))
                      /\ UNCHANGED <<reservations, stable>>
        /\ UNCHANGED <<schedVars, conns, blocks, syncLogs, envVars, uuidCtr, runs>>

\* await db.reservation.create(...); eventsCreated++
CreateReservation(s) ==
    LET f == inv[s]
        ev == f.events[f.k]
    IN  /\ f.pc = "create"
        /\ \E ok \in Outcomes :
              /\ Charge(ok)
              /\ IF ok
                 THEN /\ reservations' = Append(reservations,
                                             NewReservation(f.unitId, MappingChannel(f.m), ev))
                      /\ stable' = NoneStable
                      /\ Commit(s, NextEvent([f EXCEPT !.k = f.k + 1,
                                                       !.created = f.created + 1,
                                                       !.writes = f.writes + 1]))
                 ELSE /\ Commit(s, Caught([f EXCEPT !.writeFailed = f.writeFailed \cup {f.m}], ErrStore))
                      /\ UNCHANGED <<reservations, stable>>
        /\ UNCHANGED <<schedVars, conns, blocks, syncLogs, envVars, uuidCtr, runs>>

\* await db.syncLog.create({ status: 'success', ... }) and the return
LogSuccess(s) ==
    LET f == inv[s]
    IN  /\ f.pc = "logOk"
        /\ \E ok \in Outcomes :
              /\ Charge(ok)
              /\ IF ok
                 THEN /\ syncLogs' = Append(syncLogs,
                              SuccessLog(f.m, Len(f.events), f.created, f.updated))
                      /\ stable' = [stable EXCEPT ![f.m] = (feed[f.m] = f.doc)]
                      /\ Commit(s, Returned([f EXCEPT !.logs = f.logs + 1],
                                            SyncResult(TRUE, Len(f.events), f.created,
                                                       f.updated, Null)))
                 ELSE /\ Commit(s, Caught(f, ErrStore))
                      /\ UNCHANGED <<syncLogs, stable>>
        /\ UNCHANGED <<schedVars, conns, reservations, blocks, envVars, uuidCtr, runs>>

\* the catch block: await db.syncLog.create({ status: 'failed', ... })
LogFailure(s) ==
    LET f == inv[s]
    IN  /\ f.pc = "logFail"
        /\ \E ok \in Outcomes :
              /\ Charge(ok)
              /\ IF ok
                 THEN /\ syncLogs' = Append(syncLogs, FailedLog(f.m, f.err))
                      /\ Commit(s, Returned([f EXCEPT !.logs = f.logs + 1],
                                            FailureResult(f.err)))
                 ELSE /\ Commit(s, Rejected(f, ErrStore))
                      /\ UNCHANGED syncLogs
        /\ UNCHANGED <<schedVars, conns, reservations, blocks, envVars, uuidCtr, runs, stable>>

\* ------------------------------------------- the callers of syncCalendar
\* data of the update that follows syncCalendar, in runSync and syncChannel
SyncedConnKeepError(c, r, t) == [c EXCEPT !.lastSyncAt = t]

SyncedConn(c, r, t) == [c EXCEPT !.lastSyncAt = t, !.lastSyncError = r.error]

\* await db.channelMapping.update({ lastSyncAt, lastSyncError }) and what
\* the caller does next: runSync pushes the entry and loops on, syncChannel
\* returns the result
MarkSynced(s) ==
    LET f == inv[s]
    IN  /\ f.pc = "markSync"
        /\ \E ok \in Outcomes :
              /\ Charge(ok)
              /\ IF ok
                 THEN LET c2 == [conns EXCEPT ![f.m] = SyncedConn(conns[f.m], f.res, now)]
                      IN  /\ conns' = c2
                          /\ IF f.kind = "batch"
                             THEN Commit(s, NextMapping(
                                      [f EXCEPT !.results = Append(f.results, BatchEntry(f.m, f.res)),
                                                !.i = f.i + 1],
                                      c2))
                             ELSE Commit(s, ReturnResult(f))
                 ELSE /\ UNCHANGED conns
                      /\ IF f.kind = "batch"
                         THEN Commit(s, [f EXCEPT !.pc = "errUpdate", !.err = ErrStore])
                         ELSE Commit(s, Thrown(f, ErrStore))
        /\ UNCHANGED <<schedVars, reservations, blocks, syncLogs, envVars, uuidCtr, runs, stable>>

\* runSync's inner catch: await db.channelMapping.update({ lastSyncError });
\* when that throws too, the outer catch and finally end the batch
RecordError(s) ==
    LET f == inv[s]
    IN  /\ f.pc = "errUpdate"
        /\ \E ok \in Outcomes :
              /\ Charge(ok)
              /\ IF ok
                 THEN LET c2 == [conns EXCEPT ![f.m].lastSyncError = f.err]
                      IN  /\ conns' = c2
                          /\ Commit(s, NextMapping(
                                 [f EXCEPT !.results = Append(f.results, BatchFailure(f.m, f.err)),
                                           !.i = f.i + 1],
                                 c2))
                 ELSE /\ UNCHANGED conns
                      /\ Commit(s, Finish(f))
        /\ UNCHANGED <<schedVars, reservations, blocks, syncLogs, envVars, uuidCtr, runs, stable>>

\* POST /sync/:channelMappingId -> calendarService.syncChannel, to its
\* first await
SyncChannel(s, m) ==
    /\ inv[s].pc = "idle"
    /\ runs < MaxRuns
    /\ runs' = runs + 1
    /\ inv' = [inv EXCEPT ![s] = [IdleFrame EXCEPT !.kind = "manual",
                                                   !.pc = "lookup", !.m = m]]
    /\ UNCHANGED <<schedVars, guardVars, storeVars, envVars, uuidCtr, faults, stable>>

\* await db.channelMapping.findFirst(...) of syncChannel and its checks
LookupMapping(s) ==
    LET f == inv[s]
    IN  /\ f.pc = "lookup"
        /\ \E ok \in Outcomes :
              /\ Charge(ok)
              /\ IF ~ok THEN Commit(s, Thrown(f, ErrStore))
                 ELSE IF ~conns[f.m].iCalUrl
                      THEN Commit(s, Thrown(f, "No iCal URL configured for this channel"))
                 ELSE IF conns[f.m].units = <<>>
                      THEN Commit(s, Thrown(f, "Property has no units"))
                 ELSE Commit(s, StartSync(f, conns, f.m, conns[f.m].units[1]))
        /\ UNCHANGED <<schedVars, storeVars, envVars, uuidCtr, runs, stable>>

\* iCalAdapter.syncCalendar(mapping, unitId) called on its own with the
\* stored connection m, to its first await
SyncCalendar(s, m, unitId) ==
    /\ inv[s].pc = "idle"
    /\ runs < MaxRuns
    /\ runs' = runs + 1
    /\ inv' = [inv EXCEPT ![s] =
                  StartSync([IdleFrame EXCEPT !.kind = "direct"], conns, m, unitId)]
    /\ UNCHANGED <<schedVars, guardVars, storeVars, envVars, uuidCtr, faults, stable>>

\* the steps of a syncCalendar call
AdapterStep(s) ==
    \/ Fetch(s)
    \/ FindExisting(s)
    \/ UpdateReservation(s)
    \/ CreateReservation(s)
    \/ LogSuccess(s)
    \/ LogFailure(s)

\* ------------------------------------------- reservations and blocks
\* request bodies that pass createReservationSchema: the schema checks
\* types only, so any two dates pass; unit 9 is no unit of the user
ReservationInput(u, ch, g, ci, co, amt, ext) ==
    [unitId |-> u, channel |-> ch, guestName |-> g, checkIn |-> ci,
     checkOut |-> co, totalAmount |-> amt, externalId |-> ext]

ReservationInputs ==
    { ReservationInput(1, "direct", "Cy", 1, 2, 100, NoExternalId),
      ReservationInput(1, "airbnb", "Cy", 2, 3, 100, ExternalId("airbnb", 1)),
      ReservationInput(1, "direct", "Cy", 3, 2, Null, NoExternalId),
      ReservationInput(2, "direct", "Cy", 2, 2, Null, NoExternalId),
      ReservationInput(9, "direct", "Cy", 1, 2, Null, NoExternalId) }

\* request bodies that pass createBlockSchema
BlockInput(u, t, sd, ed) == [unitId |-> u, type |-> t, startDate |-> sd, endDate |-> ed]

BlockInputs ==
    { BlockInput(1, "blocked", 1, 3), BlockInput(1, "hold", 3, 1),
      BlockInput(9, "maintenance", 1, 2) }

\* db.unit.findFirst({ where: { id, property: { userId } } }) finds a unit
UnitFound(c, u) == \E m \in Mappings : \E j \in 1..Len(c[m].units) : c[m].units[j] = u

\* the findMany of createReservation: live reservations of the unit whose
\* interval meets the requested one
ExistingReservations(rs, input) ==
    { id \in 1..Len(rs) :
        /\ rs[id].unitId = input.unitId
        /\ rs[id].status \in {"confirmed", "pending"}
        /\ rs[id].checkIn < input.checkOut
        /\ rs[id].checkOut > input.checkIn }

\* the row db.reservation.create stores for a request; status is not
\* given and takes the column default
ManualReservation(input) ==
    [unitId |-> input.unitId, channel |-> input.channel,
     externalId |-> input.externalId, guestName |-> input.guestName,
     checkIn |-> input.checkIn, checkOut |-> input.checkOut,
     status |-> "confirmed", totalAmount |-> input.totalAmount]

\* the row db.availabilityBlock.create stores for a request
NewBlock(input) ==
    [unitId |-> input.unitId, type |-> input.type,
     startDate |-> input.startDate, endDate |-> input.endDate]

\* the call resolves with the created row
Resolved(f) == [IdleFrame EXCEPT !.kind = f.kind, !.input = f.input]

\* POST /reservations -> calendarService.createReservation, to its first
\* await
CreateManualReservation(s, input) ==
    /\ inv[s].pc = "idle"
    /\ runs < MaxRuns
    /\ runs' = runs + 1
    /\ inv' = [inv EXCEPT ![s] = [IdleFrame EXCEPT !.kind = "reserve",
                                                   !.pc = "unit", !.input = input]]
    /\ UNCHANGED <<schedVars, guardVars, storeVars, envVars, uuidCtr, faults, stable>>

\* POST /blocks -> calendarService.createBlock, to its first await
CreateBlock(s, input) ==
    /\ inv[s].pc = "idle"
    /\ runs < MaxRuns
    /\ runs' = runs + 1
    /\ inv' = [inv EXCEPT ![s] = [IdleFrame EXCEPT !.kind = "block",
                                                   !.pc = "unit", !.input = input]]
    /\ UNCHANGED <<schedVars, guardVars, storeVars, envVars, uuidCtr, faults, stable>>

\* await db.unit.findFirst(...) of createReservation and createBlock
FindUnit(s) ==
    LET f == inv[s]
    IN  /\ f.pc = "unit"
        /\ \E ok \in Outcomes :
              /\ Charge(ok)
              /\ IF ~ok THEN Commit(s, Thrown(f, ErrStore))
                 ELSE IF ~UnitFound(conns, f.input.unitId)
                      THEN Commit(s, Thrown(f, "Unit not found"))
                 ELSE IF f.kind = "reserve"
                      THEN Commit(s, [f EXCEPT !.pc = "conflicts"])
                 ELSE Commit(s, [f EXCEPT !.pc = "insertBlock"])
        /\ UNCHANGED <<schedVars, storeVars, envVars, uuidCtr, runs, stable>>

\* await db.reservation.findMany(...) of createReservation and its check
CheckConflicts(s) ==
    LET f == inv[s]
    IN  /\ f.pc = "conflicts"
        /\ \E ok \in Outcomes :
              /\ Charge(ok)
              /\ IF ~ok THEN Commit(s, Thrown(f, ErrStore))
                 ELSE IF ExistingReservations(reservations, f.input) # {}
                      THEN Commit(s, Thrown(f, "Dates conflict with existing reservation"))
                 ELSE Commit(s, [f EXCEPT !.pc = "insert"])
        /\ UNCHANGED <<schedVars, storeVars, envVars, uuidCtr, runs, stable>>

\* return db.reservation.create(...) of createReservation
InsertReservation(s) ==
    LET f == inv[s]
    IN  /\ f.pc = "insert"
        /\ \E ok \in Outcomes :
              /\ Charge(ok)
              /\ IF ok
                 THEN /\ reservations' = Append(reservations, ManualReservation(f.input))
                      /\ stable' = NoneStable
                      /\ Commit(s, Resolved(f))
                 ELSE /\ Commit(s, Thrown(f, ErrStore))
                      /\ UNCHANGED <<reservations, stable>>
        /\ UNCHANGED <<schedVars, conns, blocks, syncLogs, envVars, uuidCtr, runs>>

\* return db.availabilityBlock.create(...) of createBlock
InsertBlock(s) ==
    LET f == inv[s]
    IN  /\ f.pc = "insertBlock"
        /\ \E ok \in Outcomes :
              /\ Charge(ok)
              /\ IF ok
                 THEN /\ blocks' = Append(blocks, NewBlock(f.input))
                      /\ Commit(s, Resolved(f))
                 ELSE /\ Commit(s, Thrown(f, ErrStore))
                      /\ UNCHANGED blocks
        /\ UNCHANGED <<schedVars, conns, reservations, syncLogs, envVars, uuidCtr, runs, stable>>

\* the steps of a createReservation or createBlock call in slot s
ManualStep(s) ==
    \/ FindUnit(s)
    \/ CheckConflicts(s)
    \/ InsertReservation(s)
    \/ InsertBlock(s)

\* ------------------------------------------------------------ conflicts
\* properties.flatMap((p) => p.units.map((u) => u.id)) of getEvents
UnitIds(c) == UNION { { c[m].units[j] : j \in 1..Len(c[m].units) } : m \in Mappings }

\* getConflicts returns detectConflicts(events) for the events that
\* getEvents returned (calEvents keeps them)
ConflictsResult(f, events) ==
    [IdleFrame EXCEPT !.kind = f.kind, !.start = f.start, !.calEvents = events,
                      !.conflicts = DetectConflicts(events)]

\* GET /conflicts -> calendarService.getConflicts -> getEvents, to its
\* first await
GetConflicts(s) ==
    /\ inv[s].pc = "idle"
    /\ runs < MaxRuns
    /\ runs' = runs + 1
    /\ inv' = [inv EXCEPT ![s] = [IdleFrame EXCEPT !.kind = "conflicts",
                                                   !.pc = "properties",
                                                   !.start = now]]
    /\ UNCHANGED <<schedVars, guardVars, storeVars, envVars, uuidCtr, faults, stable>>

\* await db.property.findMany(...) of getEvents; no unit, no events
FindProperties(s) ==
    LET f == inv[s]
    IN  /\ f.pc = "properties"
        /\ \E ok \in Outcomes :
              /\ Charge(ok)
              /\ IF ~ok THEN Commit(s, Thrown(f, ErrStore))
                 ELSE IF UnitIds(conns) = {} THEN Commit(s, ConflictsResult(f, <<>>))
                 ELSE Commit(s, [f EXCEPT !.pc = "findReservations",
                                          !.unitIds = UnitIds(conns)])
        /\ UNCHANGED <<schedVars, storeVars, envVars, uuidCtr, runs, stable>>

\* await db.reservation.findMany(...) of getEvents
FindReservations(s) ==
    LET f == inv[s]
    IN  /\ f.pc = "findReservations"
        /\ \E ok \in Outcomes :
              /\ Charge(ok)
              /\ IF ~ok THEN Commit(s, Thrown(f, ErrStore))
                 ELSE Commit(s, [f EXCEPT !.pc = "findBlocks",
                                          !.calEvents = ReservationEvents(reservations, 1,
                                              f.unitIds, f.start, f.start + WindowDays)])
        /\ UNCHANGED <<schedVars, storeVars, envVars, uuidCtr, runs, stable>>

\* await db.availabilityBlock.findMany(...) of getEvents, the marking of
\* the events and the detectConflicts of getConflicts
FindBlocks(s) ==
    LET f == inv[s]
        events == f.calEvents \o BlockEvents(blocks, 1, f.unitIds, f.start,
                                             f.start + WindowDays)
    IN  /\ f.pc = "findBlocks"
        /\ \E ok \in Outcomes :
              /\ Charge(ok)
              /\ IF ~ok THEN Commit(s, Thrown(f, ErrStore))
                 ELSE Commit(s, ConflictsResult(f, MarkConflicts(events)))
        /\ UNCHANGED <<schedVars, storeVars, envVars, uuidCtr, runs, stable>>

\* the steps of a getConflicts call in slot s
ConflictStep(s) ==
    \/ FindProperties(s)
    \/ FindReservations(s)
    \/ FindBlocks(s)

\* ---------------------------------------------------------- environment
\* the wall clock advances
Tick ==
    /\ now < MaxTime
    /\ now' = now + 1
    /\ UNCHANGED <<schedVars, guardVars, storeVars, feed, feedChanges, uuidCtr,
                   faults, runs, inv, stable>>

\* a channel publishes another document under the connection's URL
FeedChange(m) ==
    /\ feedChanges < MaxFeedChanges
    /\ feedChanges' = feedChanges + 1
    /\ \E d \in Republished(feed[m]) : feed' = [feed EXCEPT ![m] = d]
    /\ stable' = [stable EXCEPT ![m] = FALSE]
    /\ UNCHANGED <<schedVars, guardVars, storeVars, now, uuidCtr, faults, runs, inv>>

\* the steps of the invocation in slot s
Step(s) ==
    \/ Enumerate(s)
    \/ Fetch(s)
    \/ FindExisting(s)
    \/ UpdateReservation(s)
    \/ CreateReservation(s)
    \/ LogSuccess(s)
    \/ LogFailure(s)
    \/ MarkSynced(s)
    \/ RecordError(s)
    \/ LookupMapping(s)

Next ==
    \/ Start
    \/ Stop
    \/ \E s \in Slots : TimerTick(s)
    \/ \E s \in Slots : StartupTimeout(s)
    \/ \E s \in Slots : ManualSyncAll(s)
    \/ \E s \in Slots, m \in Mappings : SyncChannel(s, m)
    \/ \E s \in Slots : Step(s)
    \/ Tick
    \/ \E m \in Mappings : FeedChange(m)
    \/ \E s \in Slots, input \in ReservationInputs : CreateManualReservation(s, input)
    \/ \E s \in Slots, input \in BlockInputs : CreateBlock(s, input)
    \/ \E s \in Slots : ManualStep(s)
    \/ \E s \in Slots, m \in Mappings : SyncCalendar(s, m, 1)
    \/ \E s \in Slots : GetConflicts(s)
    \/ \E s \in Slots : ConflictStep(s)

Spec == Init /\ [][Next]_vars


\* ------------------------------------------------------ specifications
\* the steps of a runSync invocation
BatchStep(s) ==
    \/ Enumerate(s)
    \/ Fetch(s)
    \/ FindExisting(s)
    \/ UpdateReservation(s)
    \/ CreateReservation(s)
    \/ LogSuccess(s)
    \/ LogFailure(s)
    \/ MarkSynced(s)
    \/ RecordError(s)

\* The scheduler alone: start / stop, the three triggers of runSync in
\* any interleaving, failing fetches and store calls; connection 1 syncs,
\* connection 2 has no feed URL, the property of connection 3 no unit.
NextSched ==
    \/ Start
    \/ Stop
    \/ \E s \in Slots : TimerTick(s)
    \/ \E s \in Slots : StartupTimeout(s)
    \/ \E s \in Slots : ManualSyncAll(s)
    \/ \E s \in Slots : BatchStep(s)

SpecSched == InitWith({OneConn}, TwiceFeed) /\ [][NextSched]_vars

\* One caller of POST /sync/all at a time, over either set of connections.
NextBatch ==
    \/ ManualSyncAll(1)
    \/ BatchStep(1)

SpecBatch == Init /\ [][NextBatch]_vars


\* batches in which every awaited fetch and store call returns or throws:
\* a step that is started is eventually taken
FairBatch ==
    /\ InitWith({OneConn, PairConns}, TwiceFeed)
    /\ [][NextBatch]_vars
    /\ WF_vars(BatchStep(1))

\* ------------------------------------------------------------- claims
InBatch(s) == inv[s].kind = "batch" /\ inv[s].pc # "idle"

\* C1: whatever the interleaving of timer ticks, the start-up run and
\* manual "sync all" triggers, at most one invocation of runSync is inside
\* the batch body, and isRunning is set while one is.
C1_SingleFlight ==
    /\ Cardinality({ s \in Slots : InBatch(s) }) <= 1
    /\ (\E s \in Slots : InBatch(s)) => isRunning

\* a trigger arrived while a batch was inside a reconciliation, and the
\* cron task and the start-up timeout had both been armed
C1_Witness ==
    \E s, t \in Slots :
        /\ InBatch(s) /\ inv[s].pc = "create"
        /\ inv[t].kind = "skipped"
        /\ task /\ startupPending = 0

\* C2: a runSync trigger that arrives while a batch is running changes
\* nothing but its own return value: it returns the cached lastResults,
\* starts no step (its frame stays idle), writes no reservation, sync log
\* or connection, and leaves isRunning, lastRunAt and lastResults alone.
C2_SkipIsNoOp ==
    [][ \A s \in Slots :
          (isRunning /\ inv[s].pc = "idle" /\ inv'[s] # inv[s]) =>
              /\ UNCHANGED <<isRunning, lastRunAt, lastResults>>
              /\ UNCHANGED <<conns, reservations, blocks, syncLogs, uuidCtr, faults, runs>>
              /\ inv'[s].pc = "idle"
              /\ inv'[s].kind = "skipped"
              /\ inv'[s].retList = lastResults
              /\ inv'[s].attempted = {}
              /\ \A t \in Slots \ {s} : inv'[t] = inv[t] ]_vars

\* a trigger skipped during the second batch holds the first batch's list
C2_Witness ==
    \E s, t \in Slots :
        /\ InBatch(s)
        /\ inv[t].kind = "skipped"
        /\ inv[t].retList # <<>>
        /\ inv[t].retList = lastResults

\* C3 (as claimed; the code does not keep it): a finished batch holds
\* exactly one entry per enumerated connection, in order, whatever failed.
C3_OneEntryPerConnection ==
    \A s \in Slots :
        (inv[s].kind = "batch" /\ inv[s].pc = "idle") =>
            /\ Len(inv[s].retList) = Len(inv[s].maps)
            /\ \A j \in 1..Len(inv[s].maps) :
                  inv[s].retList[j].channelId = inv[s].maps[j]
            /\ inv[s].attempted = { inv[s].maps[j] : j \in 1..Len(inv[s].maps) }

\* C4: a batch that entered Running returns the scheduler to Idle.
C4_ReturnsToIdle == isRunning ~> ~isRunning

\* a batch ended by a store failure in its error path left the scheduler idle
C4_Witness ==
    /\ ~isRunning
    /\ \E s \in Slots :
          /\ inv[s].kind = "batch" /\ inv[s].pc = "idle"
          /\ Len(inv[s].retList) < Len(inv[s].maps)


\* Sequential use: one caller at a time syncs one connection or all of
\* them, while the channels republish their feeds.
NextRecon ==
    \/ \E m \in Mappings : SyncChannel(1, m)
    \/ ManualSyncAll(1)
    \/ Step(1)
    \/ FeedChange(1)

SpecRecon == InitWith({OneConn}, InitFeed) /\ [][NextRecon]_vars


\* Sequential use under a running clock: one caller at a time, no feed
\* changes, the wall clock advancing at any moment.
NextClock ==
    \/ \E m \in Mappings : SyncChannel(1, m)
    \/ ManualSyncAll(1)
    \/ Step(1)
    \/ Tick

SpecClock == InitWith({OneConn}, TwiceFeed) /\ [][NextClock]_vars


\* Two callers at once: POST /sync/all and POST /sync/:id.
NextRace ==
    \/ \E s \in Slots : ManualSyncAll(s)
    \/ \E s \in Slots : SyncChannel(s, 1)
    \/ \E s \in Slots : Step(s)

SpecRace == InitWith({OneConn}, TwiceFeed) /\ [][NextRace]_vars

\* ------------------------------------------------------ claims, cont.
\* the frame is inside syncCalendar or at the update that follows it
InSync(f) == f.pc \in {"fetch", "find", "update", "create", "logOk", "logFail", "markSync"}

\* no reservation write was committed or is being attempted, and the
\* result (once returned) reports none
NoWrites(f) ==
    /\ f.created = 0 /\ f.updated = 0 /\ f.writes = 0
    /\ f.pc \notin {"create", "update"}
    /\ f.pc = "markSync" => f.res.eventsCreated = 0 /\ f.res.eventsUpdated = 0

\* every parsed event came with its own UID, no two share one
Keyed(evs) ==
    /\ \A j \in 1..Len(evs) : evs[j].uid < UuidBase
    /\ \A j, k \in 1..Len(evs) : j # k => evs[j].uid # evs[k].uid

\* the store holds at most one reservation under the key of each event
SingleStored(m, evs) ==
    \A j \in 1..Len(evs) :
        Cardinality({ id \in 1..Len(reservations) :
                        /\ reservations[id].channel = MappingChannel(m)
                        /\ reservations[id].externalId = <<MappingChannel(m), evs[j].uid>> }) <= 1

\* C5 (as claimed): a run against the feed and store that the connection's
\* last successful run left behind creates and updates nothing and reports
\* created = 0, updated = 0.
C5_Idempotent ==
    \A s \in Slots :
        (InSync(inv[s]) /\ inv[s].startedStable) => NoWrites(inv[s])

\* C5 (amended): the same, for a feed whose events all carry a UID of
\* their own and a store with at most one reservation per dedup key.
C5_IdempotentKeyed ==
    \A s \in Slots :
        (/\ InSync(inv[s]) /\ inv[s].startedStable
         /\ Keyed(inv[s].events) /\ SingleStored(inv[s].m, inv[s].events))
            => NoWrites(inv[s])

\* the second run over an unchanged two-booking feed returned success
C5_Witness ==
    \E s \in Slots :
        /\ inv[s].pc = "markSync" /\ inv[s].startedStable
        /\ Len(inv[s].events) = 2 /\ Keyed(inv[s].events)
        /\ inv[s].res.success
        /\ Len(reservations) = 2

NoDuplicateKeys ==
    \A j, k \in 1..Len(reservations) :
        (j # k /\ reservations[j].channel = reservations[k].channel)
            => reservations[j].externalId # reservations[k].externalId

\* a step that writes a reservation either creates one under a key that
\* was free, or changes the dates of an existing one
WriteIsCreateOrDateChange ==
    LET n == Len(reservations)
    IN  \/ reservations' = reservations
        \/ /\ Len(reservations') = n + 1
           /\ SubSeq(reservations', 1, n) = reservations
           /\ \A j \in 1..n :
                 \/ reservations[j].channel # reservations'[n + 1].channel
                 \/ reservations[j].externalId # reservations'[n + 1].externalId
        \/ /\ Len(reservations') = n
           /\ \E id \in 1..n :
                 /\ \A j \in (1..n) \ {id} : reservations'[j] = reservations[j]
                 /\ reservations'[id].channel = reservations[id].channel
                 /\ reservations'[id].externalId = reservations[id].externalId
                 /\ \/ reservations'[id].checkIn # reservations[id].checkIn
                    \/ reservations'[id].checkOut # reservations[id].checkOut

\* the lookup of an event decides: no reservation under the key, create;
\* one with other dates, update; one with the same dates, no write
LookupDecides ==
    \A s \in Slots :
        (inv[s].pc = "find" /\ inv'[s] # inv[s] /\ faults' = faults) =>
            LET ev == inv[s].events[inv[s].k]
                ch == MappingChannel(inv[s].m)
                stored == { id \in 1..Len(reservations) :
                              /\ reservations[id].channel = ch
                              /\ reservations[id].externalId = <<ch, ev.uid>> }
            IN  /\ stored = {} <=> inv'[s].pc = "create"
                /\ \A id \in stored :
                      inv'[s].pc = "update" <=>
                          \/ reservations[id].checkIn # ev.dtstart
                          \/ reservations[id].checkOut # ev.dtend

\* C6: over sequential runs, no channel ever has two reservations with
\* one external id; a run creates only under a free key, updates the
\* existing reservation when its dates changed and writes nothing else.
C6_DedupStable ==
    /\ [](NoDuplicateKeys)
    /\ [][WriteIsCreateOrDateChange /\ LookupDecides]_vars

\* the second run, after the channel moved the booking, updated the one
\* reservation in place
C6_Witness ==
    \E s \in Slots :
        /\ runs = 2 /\ feedChanges = 1
        /\ Len(inv[s].events) = 1 /\ inv[s].updated = 1
        /\ Len(reservations) = 1
        /\ reservations[1].checkOut = 3

\* C7 (as claimed; the code does not keep it): whatever the interleaving
\* of a manual per-connection sync with a batch, (channel, external id)
\* identifies at most one reservation.
C7_UniqueUnderRace ==
    \A j \in 1..Len(reservations) :
        { k \in 1..Len(reservations) :
            /\ reservations[k].channel = reservations[j].channel
            /\ reservations[k].externalId = reservations[j].externalId } = {j}

\* the step of slot s is the connection update after a syncCalendar call
\* that returned, and the update went through
Marked(s) == inv[s].pc = "markSync" /\ inv'[s] # inv[s] /\ faults' = faults

\* C8 (as claimed; the code does not keep it): the update that follows a
\* run that failed at fetch leaves lastSyncAt as it was.
C8_NoAdvanceOnFetchFailure ==
    [][ \A s \in Slots :
          (Marked(s) /\ inv[s].fetchFailed) =>
              conns'[inv[s].m].lastSyncAt = conns[inv[s].m].lastSyncAt ]_vars

FetchErrors == {ErrHttp, ErrTransport}

\* after a failed fetch the run only logs: nothing written, and once it
\* has returned, its result carries the failure reason and it appended
\* one sync log, a failed one with that reason
AbortedOnFetchFailure ==
    \A s \in Slots :
        inv[s].fetchFailed =>
            /\ inv[s].pc \in {"logFail", "markSync", "errUpdate"}
            /\ inv[s].writes = 0 /\ inv[s].events = <<>>
            /\ inv[s].pc = "markSync" =>
                  /\ inv[s].res.error \in FetchErrors
                  /\ ~inv[s].res.success
                  /\ inv[s].res.eventsCreated = 0 /\ inv[s].res.eventsUpdated = 0
                  /\ inv[s].logs = 1
                  /\ syncLogs # <<>>
                  /\ syncLogs[Len(syncLogs)].channelMappingId = inv[s].m
                  /\ syncLogs[Len(syncLogs)].status = "failed"
                  /\ syncLogs[Len(syncLogs)].error = inv[s].res.error

SuccessLogged ==
    \A s \in Slots :
        (inv[s].pc = "markSync" /\ inv[s].res.success) =>
            /\ inv[s].res.error = Null
            /\ inv[s].res.eventsFound = Len(inv[s].events)
            /\ inv[s].res.eventsCreated = inv[s].created
            /\ inv[s].res.eventsUpdated = inv[s].updated
            /\ inv[s].created + inv[s].updated = inv[s].writes
            /\ inv[s].logs = 1
            /\ syncLogs # <<>>
            /\ LET l == syncLogs[Len(syncLogs)]
               IN  /\ l.channelMappingId = inv[s].m
                   /\ l.status = "success"
                   /\ l.error = Null
                   /\ l.eventsFound = inv[s].res.eventsFound
                   /\ l.eventsCreated = inv[s].res.eventsCreated
                   /\ l.eventsUpdated = inv[s].res.eventsUpdated

\* C10: a run that processed all events without error has appended a
\* success SyncLog with the counts of its result; the connection update
\* that follows sets lastSyncAt to the current time and lastSyncError to
\* null.
C10_SuccessRecorded ==
    /\ [](SuccessLogged)
    /\ [][ \A s \in Slots :
             (Marked(s) /\ inv[s].res.success) =>
                 /\ conns'[inv[s].m].lastSyncAt = now
                 /\ conns'[inv[s].m].lastSyncAt >= conns[inv[s].m].lastSyncAt
                 /\ conns'[inv[s].m].lastSyncError = Null ]_vars

\* a connection that failed first and succeeded later: error cleared,
\* timestamp moved on
C10_Witness ==
    /\ Len(syncLogs) = 2
    /\ syncLogs[1].status = "failed" /\ syncLogs[1].channelMappingId = 1
    /\ syncLogs[2].status = "success" /\ syncLogs[2].channelMappingId = 1
    /\ syncLogs[2].eventsFound = 2
    /\ syncLogs[2].eventsCreated = 1 /\ syncLogs[2].eventsUpdated = 1
    /\ conns[1].lastSyncError = Null
    /\ conns[1].lastSyncAt = now /\ now > 0

\* C11 (as claimed; the code does not keep it): the lookup of an event
\* whose reservation exists sends the run to the update exactly when
\* check-in, check-out or title of the stored record differs from the
\* event's, a title-only difference included; the update then rewrites the
\* record in place and adds one to the updated count; with all three
\* identical nothing is written and no count changes.
C11_UpdateOnAnyDifference ==
    [][ \A s \in Slots :
          /\ (inv[s].pc = "find" /\ inv'[s] # inv[s] /\ faults' = faults) =>
                LET ev == inv[s].events[inv[s].k]
                    ch == MappingChannel(inv[s].m)
                    stored == { id \in 1..Len(reservations) :
                                  /\ reservations[id].channel = ch
                                  /\ reservations[id].externalId = <<ch, ev.uid>> }
                IN  /\ reservations' = reservations
                    /\ inv'[s].updated = inv[s].updated
                    /\ inv'[s].created = inv[s].created
                    /\ \A id \in stored :
                          inv'[s].pc = "update" <=>
                              \/ reservations[id].checkIn # ev.dtstart
                              \/ reservations[id].checkOut # ev.dtend
                              \/ reservations[id].guestName # ev.summary
          /\ (inv[s].pc = "update" /\ inv'[s] # inv[s] /\ faults' = faults) =>
                /\ Len(reservations') = Len(reservations)
                /\ inv'[s].updated = inv[s].updated + 1
                /\ reservations'[inv[s].existing].checkIn = inv[s].events[inv[s].k].dtstart
                /\ reservations'[inv[s].existing].checkOut = inv[s].events[inv[s].k].dtend
                /\ reservations'[inv[s].existing].guestName = inv[s].events[inv[s].k].summary ]_vars

\* One caller at a time over a store that already holds reservations:
\* POST /sync/1, POST /sync/all, POST /reservations and POST /blocks; the
\* feed repeats a booking or carries an entry that ends before it starts.
NextStore ==
    \/ SyncChannel(1, 1)
    \/ ManualSyncAll(1)
    \/ Step(1)
    \/ \E input \in ReservationInputs : CreateManualReservation(1, input)
    \/ \E input \in BlockInputs : CreateBlock(1, input)
    \/ ManualStep(1)

SpecStore ==
    /\ \/ InitSeeded({OneConn}, TwiceFeed, SeededStores)
       \/ InitSeeded({OneConn}, InvertedFeed, SeededStores)
    /\ [][NextStore]_vars

\* C12: no step of a reconciliation, its update included, changes the
\* status, monetary total, unit id, channel or external id of a stored
\* reservation, and none removes a reservation: a reservation advanced to
\* completed or cancelled keeps that status over any number of runs.
C12_UpdateKeepsFrame ==
    [][ /\ Len(reservations') >= Len(reservations)
        /\ \A id \in 1..Len(reservations) :
              /\ reservations'[id].status = reservations[id].status
              /\ reservations'[id].totalAmount = reservations[id].totalAmount
              /\ reservations'[id].unitId = reservations[id].unitId
              /\ reservations'[id].channel = reservations[id].channel
              /\ reservations'[id].externalId = reservations[id].externalId ]_vars

\* the second run has again moved the dates of a cancelled reservation
C12_Witness ==
    /\ Len(reservations) = 1
    /\ reservations[1].status = "cancelled"
    /\ reservations[1].checkOut = 3
    /\ Len(syncLogs) = 1 /\ syncLogs[1].status = "success"
    /\ \E s \in Slots : inv[s].pc = "logOk" /\ inv[s].updated = 2

\* C13 (as claimed; the code does not keep it): every stored reservation
\* and every stored availability block starts strictly before it ends; a
\* feed entry or request that does not is never persisted.
C13_StartBeforeEnd ==
    /\ \A id \in 1..Len(reservations) :
          reservations[id].checkIn < reservations[id].checkOut
    /\ \A b \in 1..Len(blocks) : blocks[b].startDate < blocks[b].endDate

\* C14 (as claimed; the code does not keep it): a run whose fetched
\* document does not parse returns success = false with an error text
\* and has appended a failed SyncLog; it never reports a successful run
\* with zero events.
C14_ParseFailureIsFailure ==
    \A s \in Slots :
        (inv[s].pc = "markSync" /\ ~inv[s].fetchFailed /\ ~inv[s].doc.ok) =>
            /\ ~inv[s].res.success
            /\ inv[s].res.error # Null
            /\ syncLogs # <<>>
            /\ syncLogs[Len(syncLogs)].channelMappingId = inv[s].m
            /\ syncLogs[Len(syncLogs)].status = "failed"

\* The reconciler by itself: one caller at a time calls syncCalendar with
\* any of the stored connections, the one without feed URL included.
NextAdapter ==
    \/ \E m \in Mappings : SyncCalendar(1, m, 1)
    \/ AdapterStep(1)

SpecAdapter == InitWith({OneConn}, TwiceFeed) /\ [][NextAdapter]_vars

\* C15: syncCalendar called with a connection that has no feed URL
\* returns at once, without throwing: success = false, all counts zero,
\* the error text naming the missing feed; it starts no fetch or other
\* awaited call and writes no reservation.
C15_NoUrlIsFailureResult ==
    [][ \A s \in Slots :
          (/\ inv[s].pc = "idle" /\ inv'[s] # inv[s]
           /\ inv'[s].kind = "direct" /\ ~conns[inv'[s].m].iCalUrl) =>
              /\ inv'[s].pc = "idle"
              /\ ~inv'[s].threw
              /\ ~inv'[s].res.success
              /\ inv'[s].res.eventsFound = 0
              /\ inv'[s].res.eventsCreated = 0
              /\ inv'[s].res.eventsUpdated = 0
              /\ inv'[s].res.error = "No iCal URL configured"
              /\ reservations' = reservations
              /\ faults' = faults /\ uuidCtr' = uuidCtr ]_vars

\* a call for connection 2, which has no URL, returned its failure result
\* after a run of connection 1 had filled the store
C15_Witness ==
    \E s \in Slots :
        /\ inv[s].kind = "direct" /\ inv[s].pc = "idle" /\ inv[s].m = 2
        /\ inv[s].res.error = "No iCal URL configured"
        /\ reservations # <<>>

\* C16 (as claimed; the code does not keep it): a reservation write that
\* fails while a batch processes an event of a connection aborts that
\* connection's run only: the batch ends with a failed entry carrying an
\* error for the connection, a failed SyncLog of the connection carries
\* the error, and every enumerated connection was attempted and has its
\* entry.
C16_WriteFailureIsolated ==
    \A s \in Slots :
        (inv[s].kind = "batch" /\ inv[s].pc = "idle") =>
            \A m \in inv[s].writeFailed :
                /\ \E j \in 1..Len(inv[s].retList) :
                      /\ inv[s].retList[j].channelId = m
                      /\ ~inv[s].retList[j].success
                      /\ inv[s].retList[j].error # Null
                /\ \E l \in 1..Len(syncLogs) :
                      /\ syncLogs[l].channelMappingId = m
                      /\ syncLogs[l].status = "failed"
                      /\ syncLogs[l].error = ErrStore
                /\ Len(inv[s].retList) = Len(inv[s].maps)
                /\ inv[s].attempted = { inv[s].maps[j] : j \in 1..Len(inv[s].maps) }

\* C17 (as claimed; the code does not keep it): every failed entry of
\* the published batch snapshot, the entry of a connection whose property
\* has no unit included, has a failed SyncLog of that connection in the
\* store.
C17_FailuresLoggedTwice ==
    \A j \in 1..Len(lastResults) :
        ~lastResults[j].success =>
            \E l \in 1..Len(syncLogs) :
                /\ syncLogs[l].channelMappingId = lastResults[j].channelId
                /\ syncLogs[l].status = "failed"

\* C18 (as claimed; the code does not keep it): lastRunAt and lastResults
\* of the status change only in the step that completes a batch, together,
\* lastRunAt becoming the time of completion; while a batch stays Running
\* the status keeps its lastRunAt; and with a first run done and the timer
\* armed, nextRunAt is lastRunAt plus the timer interval.
C18_SnapshotAtCompletion ==
    [][ /\ (GetStatus'.lastRunAt # GetStatus.lastRunAt
              \/ GetStatus'.lastResults # GetStatus.lastResults) =>
                 /\ isRunning /\ ~isRunning'
                 /\ GetStatus'.lastRunAt = now'
        /\ isRunning' => GetStatus'.lastRunAt = GetStatus.lastRunAt
        /\ (task' /\ lastRunAt' # NoDate) =>
                 GetStatus'.nextRunAt = GetStatus'.lastRunAt + IntervalMs ]_vars

\* The conflict query by itself: one caller at a time asks GET /conflicts
\* over a calendar that already holds reservations and blocks.
NextConflicts ==
    \/ GetConflicts(1)
    \/ ConflictStep(1)

SpecConflicts ==
    /\ InitStored({OneConn}, TwiceFeed, ConflictStores, ConflictBlocks)
    /\ [][NextConflicts]_vars

\* the call in slot s has returned the conflicts of its events
ConflictsReturned(s) ==
    inv[s].kind = "conflicts" /\ inv[s].pc = "idle" /\ ~inv[s].threw

\* C19: detectConflicts reports two distinct input events as a pair
\* exactly when they are on one unit and each starts before the other
\* ends; such a pair is reported once, in either order; events of
\* different units and events that only touch are never paired.
C19_PairsExactlyOverlaps ==
    \A s \in Slots :
        ConflictsReturned(s) =>
            LET evs == inv[s].calEvents
                cs == inv[s].conflicts
            IN  /\ \A p, q \in 1..Len(evs) :
                      p < q =>
                          Cardinality({ n \in 1..Len(cs) :
                                          {cs[n].eventA.id, cs[n].eventB.id}
                                              = {evs[p].id, evs[q].id} })
                              = IF /\ evs[p].unitId = evs[q].unitId
                                   /\ evs[p].checkIn < evs[q].checkOut
                                   /\ evs[q].checkIn < evs[p].checkOut
                                THEN 1 ELSE 0
                /\ \A n \in 1..Len(cs) :
                      /\ cs[n].eventA.id # cs[n].eventB.id
                      /\ \E p, q \in 1..Len(evs) : cs[n].eventA = evs[p] /\ cs[n].eventB = evs[q]

\* four events, among them two of one unit that only touch and two of
\* different units on overlapping days: exactly one pair was reported
C19_Witness ==
    \E s \in Slots :
        /\ ConflictsReturned(s)
        /\ Len(inv[s].conflicts) = 1
        /\ LET evs == inv[s].calEvents
           IN  /\ Len(evs) = 4
               /\ \E p, q \in 1..4 : /\ evs[p].unitId = evs[q].unitId
                                     /\ evs[p].checkOut = evs[q].checkIn
                                     /\ evs[p].checkIn < evs[p].checkOut
                                     /\ evs[q].checkIn < evs[q].checkOut
               /\ \E p, q \in 1..4 : /\ evs[p].unitId # evs[q].unitId
                                     /\ evs[p].checkIn < evs[q].checkOut
                                     /\ evs[q].checkIn < evs[p].checkOut

\* C20 (as claimed; the code does not keep it): every reported pair
\* carries overlapStart = max of the two starts and overlapEnd = min of
\* the two ends, and overlapStart is strictly before overlapEnd.
C20_OverlapIsIntersection ==
    \A s \in Slots :
        ConflictsReturned(s) =>
            \A n \in 1..Len(inv[s].conflicts) :
                LET c == inv[s].conflicts[n]
                IN  /\ c.overlapStart >= c.eventA.checkIn
                    /\ c.overlapStart >= c.eventB.checkIn
                    /\ c.overlapStart \in {c.eventA.checkIn, c.eventB.checkIn}
                    /\ c.overlapEnd <= c.eventA.checkOut
                    /\ c.overlapEnd <= c.eventB.checkOut
                    /\ c.overlapEnd \in {c.eventA.checkOut, c.eventB.checkOut}
                    /\ c.overlapStart < c.overlapEnd

\* C21: the events a conflict query works on are the confirmed and
\* pending reservations and the blocks of every type of the user's units:
\* no reported pair involves a reservation that is cancelled (or
\* completed), whatever it overlaps, and every block is among the events.
C21_CancelledExcluded ==
    \A s \in Slots :
        ConflictsReturned(s) =>
            LET evs == inv[s].calEvents
                cs == inv[s].conflicts
                live(id) == id[1] = "reservation" =>
                                reservations[id[2]].status \in {"confirmed", "pending"}
            IN  /\ \A n \in 1..Len(cs) : live(cs[n].eventA.id) /\ live(cs[n].eventB.id)
                /\ \A p \in 1..Len(evs) : live(evs[p].id)
                /\ \A b \in 1..Len(blocks) :
                      blocks[b].unitId \in {1, 2} =>
                          \E p \in 1..Len(evs) : evs[p].id = <<"block", b>>

\* a cancelled reservation overlapping a confirmed one on unit 1 and a
\* block: the query returned, pairing the confirmed one with the block only
C21_Witness ==
    \E s \in Slots :
        /\ ConflictsReturned(s)
        /\ \E j, k \in 1..Len(reservations) :
              /\ reservations[j].status = "cancelled"
              /\ reservations[k].status = "confirmed"
              /\ reservations[j].unitId = reservations[k].unitId
              /\ reservations[j].checkIn < reservations[k].checkOut
              /\ reservations[k].checkIn < reservations[j].checkOut
        /\ Len(inv[s].conflicts) = 1
        /\ inv[s].conflicts[1].eventB.type = "blocked"

\* C22: in the list getEvents returns, an event carries hasConflict
\* exactly when it is eventA or eventB of a pair detected over that list,
\* that is, when another event of its unit in the list overlaps it.
C22_FlagIffInPair ==
    \A s \in Slots :
        ConflictsReturned(s) =>
            LET evs == inv[s].calEvents
                cs == inv[s].conflicts
            IN  \A p \in 1..Len(evs) :
                    /\ evs[p].hasConflict <=>
                          \E n \in 1..Len(cs) :
                              evs[p].id \in {cs[n].eventA.id, cs[n].eventB.id}
                    /\ evs[p].hasConflict <=>
                          \E q \in 1..Len(evs) :
                              /\ q # p
                              /\ evs[q].unitId = evs[p].unitId
                              /\ evs[p].checkIn < evs[q].checkOut
                              /\ evs[q].checkIn < evs[p].checkOut

\* a returned list with two flagged events and, on the same unit, one
\* that is not flagged
C22_Witness ==
    \E s \in Slots :
        /\ ConflictsReturned(s)
        /\ LET evs == inv[s].calEvents
           IN  \E p, q, r \in 1..Len(evs) :
                   /\ p # q /\ evs[p].hasConflict /\ evs[q].hasConflict
                   /\ ~evs[r].hasConflict /\ evs[r].unitId = evs[p].unitId
                   /\ Len(inv[s].conflicts) = 1

\* Feeds with malformed entries: a VEVENT without SUMMARY, one without
\* DTEND (followed by the same booking with its end), one without DTSTART.
UntitledFeed ==
    [m \in Mappings |->
        [ok |-> TRUE,
         vevents |-> <<RawEvent(1, "", 1, 2), RawEvent(2, "Bob", 2, 3)>>]]

NoEndFeed ==
    [m \in Mappings |->
        [ok |-> TRUE,
         vevents |-> <<RawEvent(1, "Ann", 1, NoDate), RawEvent(1, "Ann", 1, 2)>>]]

NoStartFeed ==
    [m \in Mappings |->
        [ok |-> TRUE,
         vevents |-> <<RawEvent(1, "Ann", NoDate, 2), RawEvent(2, "Bob", 2, 3)>>]]

\* One caller at a time reconciles such a feed: POST /sync/1 and
\* POST /sync/all over an empty store.
NextFeed ==
    \/ SyncChannel(1, 1)
    \/ ManualSyncAll(1)
    \/ Step(1)

SpecFeed ==
    /\ \/ InitWith({OneConn}, UntitledFeed)
       \/ InitWith({OneConn}, NoEndFeed)
       \/ InitWith({OneConn}, NoStartFeed)
    /\ [][NextFeed]_vars

\* C23: a feed event whose key no stored reservation carries makes the
\* reconciliation create exactly one reservation: on the target unit,
\* confirmed, keyed '<channel>-<uid>', over the event's start and end,
\* named by the event's title or "Guest" when the title is empty; the
\* created count grows by one.
C23_CreateFromEvent ==
    [][ \A s \in Slots :
          /\ (inv[s].pc = "find" /\ inv'[s] # inv[s] /\ faults' = faults) =>
                LET ev == inv[s].events[inv[s].k]
                    ch == MappingChannel(inv[s].m)
                IN  (\A id \in 1..Len(reservations) :
                        ~(/\ reservations[id].channel = ch
                          /\ reservations[id].externalId = <<ch, ev.uid>>))
                        => inv'[s].pc = "create"
          /\ (inv[s].pc = "create" /\ inv'[s] # inv[s] /\ faults' = faults) =>
                LET f == inv[s]
                    ev == f.events[f.k]
                    ch == MappingChannel(f.m)
                    new == reservations'[Len(reservations')]
                IN  /\ Len(reservations') = Len(reservations) + 1
                    /\ SubSeq(reservations', 1, Len(reservations)) = reservations
                    /\ inv'[s].created = f.created + 1
                    /\ inv'[s].updated = f.updated
                    /\ new.unitId = f.unitId
                    /\ new.status = "confirmed"
                    /\ new.channel = ch
                    /\ new.externalId = <<ch, ev.uid>>
                    /\ new.checkIn = ev.dtstart
                    /\ new.checkOut = ev.dtend
                    /\ \A j \in 1..Len(f.doc.vevents) :
                          f.doc.vevents[j].uid = ev.uid =>
                              new.guestName = IF f.doc.vevents[j].summary # ""
                                              THEN f.doc.vevents[j].summary
                                              ELSE "Guest" ]_vars

\* C24: a feed entry without a start or without an end is skipped and the
\* feed does not fail: a run that meets no fetch or store failure
\* succeeds, and eventsFound, the events it reconciles and the writes it
\* counts cover the entries that carry both a start and an end, no other.
C24_MalformedSkipped ==
    \A s \in Slots :
        LET f == inv[s]
            valid == { j \in 1..Len(f.doc.vevents) :
                          /\ f.doc.vevents[j].dtstart # NoDate
                          /\ f.doc.vevents[j].dtend # NoDate }
        IN  (f.pc = "markSync" /\ ~f.fetchFailed /\ f.doc.ok /\ f.err = Null) =>
                /\ f.res.success
                /\ f.res.eventsFound = Cardinality(valid)
                /\ Len(f.events) = Cardinality(valid)
                /\ f.res.eventsCreated + f.res.eventsUpdated <= Cardinality(valid)

\* C25: every call of syncCalendar, whatever its outcome, has appended
\* exactly one SyncLog of its connection when it ends, and no step
\* changes or removes a SyncLog already written.
C25_OneLogPerAttempt ==
    [][ /\ Len(syncLogs') >= Len(syncLogs)
        /\ SubSeq(syncLogs', 1, Len(syncLogs)) = syncLogs
        /\ \A s \in Slots :
              LET inAdapter(f) == f.pc \in {"fetch", "find", "update", "create",
                                            "logOk", "logFail"}
                  grown == Len(syncLogs') - Len(syncLogs)
              IN  /\ (inAdapter(inv[s]) /\ ~inAdapter(inv'[s])) =>
                        /\ inv[s].logs + grown = 1
                        /\ syncLogs'[Len(syncLogs')].channelMappingId = inv[s].m
                  /\ (inv[s].pc = "idle" /\ runs' # runs
                        /\ inv'[s].kind = "direct" /\ inv'[s].pc = "idle") =>
                        /\ grown = 1
                        /\ syncLogs'[Len(syncLogs')].channelMappingId = inv'[s].m ]_vars

\* C29: the eventsCreated and eventsUpdated of the result syncCalendar
\* returns equal the creates and updates the run committed, also when a
\* store failure ended the run midway.
C29_CountsMatchWrites ==
    \A s \in Slots :
        inv[s].pc = "markSync" =>
            /\ inv[s].res.eventsCreated = inv[s].created
            /\ inv[s].res.eventsUpdated = inv[s].updated
            /\ inv[s].res.eventsCreated + inv[s].res.eventsUpdated = inv[s].writes

\* C26: runSync never rejects: whatever fetch and store calls fail, the
\* failure of the update that records a connection's error included, a
\* batch ends by returning its result list, with the running flag cleared
\* and the list cached.
C26_RunSyncNeverThrows ==
    \A s \in Slots :
        inv[s].kind = "batch" =>
            /\ ~inv[s].threw
            /\ inv[s].pc = "idle" =>
                  /\ Len(inv[s].retList) <= Len(inv[s].maps)
                  /\ \A n \in 1..Len(inv[s].retList) :
                        inv[s].retList[n].channelId = inv[s].maps[n]

\* a batch that returned after the update recording a connection's error
\* had failed: its list lacks the entry of that connection
C26_Witness ==
    \E s \in Slots :
        /\ inv[s].kind = "batch"
        /\ inv[s].pc = "idle"
        /\ ~inv[s].threw
        /\ inv[s].attempted # {}
        /\ Len(inv[s].retList) < Len(inv[s].maps)
        /\ ~isRunning
        /\ lastResults = inv[s].retList

\* C27: a reconciliation of a connection whose target unit is U creates
\* and updates reservations of unit U only, and an event whose key no
\* reservation of unit U carries is created there: two connections of one
\* channel type on different properties that publish the same UID do not
\* touch or suppress each other's reservations.
C27_OwnUnitOnly ==
    [][ \A s \in Slots :
          (inv'[s] # inv[s] /\ faults' = faults) =>
              /\ inv[s].pc \in {"update", "create"} =>
                    \A id \in 1..Len(reservations') :
                        (id > Len(reservations) \/ reservations'[id] # reservations[id])
                            => reservations'[id].unitId = inv[s].unitId
              /\ inv[s].pc = "find" =>
                    LET ev == inv[s].events[inv[s].k]
                        ch == MappingChannel(inv[s].m)
                    IN  (\A id \in 1..Len(reservations) :
                            ~(/\ reservations[id].unitId = inv[s].unitId
                              /\ reservations[id].channel = ch
                              /\ reservations[id].externalId = <<ch, ev.uid>>))
                            => inv'[s].pc = "create" ]_vars

\* C28: once stop() has returned and until the next start(), no timer of
\* the scheduler calls runSync: the start-up timeout armed by start()
\* does not fire while no task exists (the cron callback cannot, its task
\* is stopped); and start() while a task exists arms no second timeout.
C28_StoppedIsQuiet ==
    [][ /\ ~task => startupPending' >= startupPending
        /\ (task /\ task') => startupPending' <= startupPending ]_vars

\* Two callers at once: POST /reservations and POST /blocks requests race
\* each other and the reconciliations of POST /sync/1 and POST /sync/all.
NextBooking ==
    \/ \E s \in Slots, input \in ReservationInputs : CreateManualReservation(s, input)
    \/ \E s \in Slots, input \in BlockInputs : CreateBlock(s, input)
    \/ \E s \in Slots : ManualStep(s)
    \/ \E s \in Slots : SyncChannel(s, 1)
    \/ \E s \in Slots : ManualSyncAll(s)
    \/ \E s \in Slots : Step(s)

SpecBooking == InitWith({OneConn}, TwiceFeed) /\ [][NextBooking]_vars

\* C30: createReservation never commits a reservation that overlaps a
\* confirmed or pending reservation the unit already holds, however
\* concurrent createReservation calls and reconciliations interleave.
C30_NoDoubleBooking ==
    [][ \A s \in Slots :
          (inv[s].pc = "insert" /\ Len(reservations') = Len(reservations) + 1) =>
              LET new == reservations'[Len(reservations')]
              IN  \A id \in 1..Len(reservations) :
                      ~(/\ reservations[id].unitId = new.unitId
                        /\ reservations[id].status \in {"confirmed", "pending"}
                        /\ reservations[id].checkIn < new.checkOut
                        /\ new.checkIn < reservations[id].checkOut) ]_vars

====
